---- MODULE Spec2Model ----
(***************************************************************************)
(* Model of the cfstream upload engine (package api, ClientImpl.UploadFile *)
(* with its two transfer strategies tusUploadDirect and multipartUpload)   *)
(* and of the progress channel between the engine and its consumer.        *)
(*                                                                         *)
(* One behaviour is one call of UploadFile.  Init draws the inputs of the  *)
(* call (path, file, options, progress channel); the remote service and    *)
(* the progress consumer are the environment and answer nondeterministi-   *)
(* cally.  Byte counts are exact: sizes are in bytes and the constants are *)
(* those of the source.                                                    *)
(***************************************************************************)
EXTENDS Integers, Sequences, FiniteSets, TLC

\* ---------------------------------------------------------------- constants
MiB == 1024 * 1024
\* const tusThreshold = 200 * 1024 * 1024
tusThreshold == 200 * 1024 * 1024
\* const chunkSize = 50 * 1024 * 1024
chunkSize == 50 * 1024 * 1024
\* buffer := make([]byte, 1024*1024) in the multipart writer
bufferSize == 1024 * 1024

\* ------------------------------------------------------------------- bounds
\* largest number of whole chunks of a file sent through the resumable path
MaxChunks == 6
\* largest number of whole read buffers of the small single-shot files
MaxBuffers == 3
\* largest capacity of the caller's progress channel
MaxChanCap == 2
\* longest Location header value answered by the service
MaxLocLen == 2
MaxWrapDepth == 2

\* ------------------------------------------------------------------ helpers
Min(a, b) == IF a < b THEN a ELSE b

Last(s) == s[Len(s)]

\* strings are sequences of one-character strings
LocChars == {"/", "v", "%"}

RECURSIVE StringsUpTo(_)
StringsUpTo(k) ==
  IF k = 0 THEN {<<>>}
  ELSE LET S == StringsUpTo(k - 1)
       IN S \cup {Append(s, c) : s \in {t \in S : Len(t) = k - 1}, c \in LocChars}

Locations == StringsUpTo(MaxLocLen)

\* strings.Split(s, sep) for a one-character separator: the substrings
\* between the separators, in order; always at least one element.
RECURSIVE SplitFrom(_, _, _, _)
SplitFrom(s, sep, i, cur) ==
  IF i > Len(s) THEN <<cur>>
  ELSE IF s[i] = sep THEN <<cur>> \o SplitFrom(s, sep, i + 1, <<>>)
  ELSE SplitFrom(s, sep, i + 1, Append(cur, s[i]))

Split(s, sep) == SplitFrom(s, sep, 1, <<>>)

\* url.Parse as used by http.NewRequestWithContext: fails on an invalid
\* escape sequence (a "%" that is not followed by two hex digits).
URLParses(u) == \A i \in 1..Len(u) : u[i] # "%"

\* errors are wrap chains, outermost message first; errors.Is(err, target)
\* walks the chain.
NoError == <<>>

\* fmt.Errorf("...: %v", err): the text is kept and the chain is lost
WrapFlattened(msg, err) == <<msg>>

\* fmt.Errorf("...: %w", err)
Wrap(msg, err) == <<msg>> \o err

\* errors.Is(err, target)
ErrorsIs(err, target) == \E i \in 1..Len(err) : err[i] = target

ErrNotFound == "ErrNotFound"
ErrUnauthorized == "ErrUnauthorized"
ErrForbidden == "ErrForbidden"
ErrRateLimit == "ErrRateLimit"
ErrInvalidInput == "ErrInvalidInput"
Sentinels == {ErrNotFound, ErrUnauthorized, ErrForbidden, ErrRateLimit, ErrInvalidInput}

\* a transport-level failure of client.Do (connection error, context
\* cancelled, deadline exceeded)
NetError == <<"net/http: request failed">>

\* a *cloudflare.Error with the given StatusCode, as an element of a chain
APIError(status) == "cloudflare.Error " \o ToString(status)

\* ctx.Err() after the caller cancelled the context or its deadline passed
CtxCanceled == <<"context canceled">>
CtxDeadline == <<"context deadline exceeded">>

\* the errors client.Do returns for a request made with the caller's context
TransportErrors == {NetError, CtxCanceled, CtxDeadline}

\* ------------------------------------------------------------------- inputs
SmallSizes ==
  {0, 1} \cup {k * bufferSize + d : k \in 1..MaxBuffers, d \in {-1, 0, 1}}
         \cup {tusThreshold - 1}

LargeSizes ==
  {tusThreshold, tusThreshold + 1}
    \cup {k * chunkSize + d : k \in 4..MaxChunks, d \in {0, 20 * MiB}}

FileSizes == SmallSizes \cup LargeSizes

\* a single-shot file of more than MaxBuffers read buffers (the file just
\* below the threshold takes 200) is uploaded without a progress channel
LongSingleShot(size) == size < tusThreshold /\ size > MaxBuffers * bufferSize + 1

FilePaths == {"", "video.mp4"}
Names == {"", "clip"}

\* opts.Metadata: nil, or one key with its value
NoMetadata == <<>>
Metadatas == {NoMetadata, <<"category", "tutorial">>}

\* the UploadOptions a caller gives: no option at all, a name only, or a
\* name with metadata and the require-signed-URLs flag
UploadOptionsGiven ==
  {o \in [Name : Names, Metadata : Metadatas, RequireSignedURLs : BOOLEAN] :
     /\ o.Name = "" => o.Metadata = NoMetadata
     /\ o.RequireSignedURLs <=> o.Metadata # NoMetadata}

\* the service's answers
OpenStatuses == {201, 200, 500}
PatchStatuses == {204, 200, 500}
GetStatuses == {400, 401, 403, 404, 429, 500}

\* the status codes of the API errors WrapError is tried on
APIStatuses == GetStatuses \cup {409, 503}

\* var apiErr *cloudflare.Error; errors.As(err, &apiErr): the first
\* element of the chain that is a *cloudflare.Error, 0 when there is none
IsAPIError(e) == \E st \in APIStatuses : e = APIError(st)
ErrorsAs(err) ==
  IF \E i \in 1..Len(err) : IsAPIError(err[i])
    THEN CHOOSE i \in 1..Len(err) :
           /\ IsAPIError(err[i])
           /\ \A j \in 1..(i - 1) : ~IsAPIError(err[j])
    ELSE 0

\* apiErr.StatusCode
StatusCode(e) == CHOOSE st \in APIStatuses : e = APIError(st)

\* the errors a call of WrapError is tried on: nil, errors that are no API
\* error, API errors of every status, and each of them inside up to
\* MaxWrapDepth fmt.Errorf("...: %w") wrappers
WrapTexts == {"request failed", "stream"}
BaseErrors ==
  {NetError, <<"generic error">>, <<"video ID cannot be empty", ErrInvalidInput>>}
    \cup {<<APIError(st)>> : st \in APIStatuses}
RECURSIVE WrappedUpTo(_)
WrappedUpTo(k) ==
  IF k = 0 THEN BaseErrors
  ELSE LET inner == WrappedUpTo(k - 1)
       IN inner \cup {Wrap(t, e) : t \in WrapTexts, e \in inner}
SDKErrors == {NoError} \cup WrappedUpTo(MaxWrapDepth)

DirectStatuses == {200, 500}
DirectBodies == {"ok", "unparseable", "unsuccessful"}
MultipartStatuses == {200, 201, 400, 500}
DirectUIDs == {<<>>, <<"u">>, <<"v">>}
UploadURLs == {<<"u", "p">>, <<"%">>}

TusURL == <<"t", "u", "s">>
DirectURL == <<"d", "i", "r">>

\* a request: its method and target (kind, url), the headers Upload-Offset,
\* Content-Length, Upload-Length and the name of Upload-Metadata, and the
\* part of the file its body carries (bodyLen bytes from position bodyFrom);
\* meta and signed are the metadata and the requireSignedURLs flag it
\* carries, which no request builder but CreateDirectUploadURL sets
Request(kind, url, off, len, total, name, from, blen) ==
  [kind |-> kind, url |-> url, offset |-> off, length |-> len,
   uploadLength |-> total, name |-> name, bodyFrom |-> from, bodyLen |-> blen,
   meta |-> NoMetadata, signed |-> FALSE]

\* the POST of CreateDirectUploadURL: body["requireSignedURLs"] = true when
\* the DirectUploadOptions ask for it
DirectUploadRequest(requireSigned) ==
  [Request("DirectURL", DirectURL, -1, -1, -1, "", 0, 0)
     EXCEPT !.signed = requireSigned]

\* the answer "client.Do returned an error"
NoAnswer == 0

VARIABLES
  filePath,        \* argument filePath
  fileOpens,       \* whether os.Open and Stat succeed on the path
  fileSize,        \* fileInfo.Size()
  optsName,        \* opts.Name
  optsMeta,        \* opts.Metadata
  optsSigned,      \* opts.RequireSignedURLs
  chNil,           \* progressCh == nil
  chCap,           \* cap(progressCh)
  pc,              \* position of the UploadFile call
  reqs,            \* the HTTP requests sent so far, in order
  filePos,         \* read position of the file handle
  n,               \* n of the last file.Read in tusUploadDirect
  offset,          \* offset in tusUploadDirect
  location,        \* Location header of the session-open response
  videoID,         \* identifier the uploader obtained
  progressCh,      \* updates buffered in the channel
  emitCount,       \* number of progress sends attempted
  lastEmit,        \* the last progress send attempted
  received,        \* number of updates the consumer has received
  result,          \* what UploadFile returned
  serverCommitted, \* bytes the service has committed for the session
  patchAcks,       \* number of PATCH requests answered 204
  strategy,        \* the branch of UploadFile that was taken
  fileClosed,      \* the deferred file.Close() has run
  directUID,       \* directResult.UID
  uploadURL,       \* directResult.UploadURL
  wpc,             \* position of the multipart writer goroutine
  wn,              \* n of the last file.Read of the writer
  written,         \* written in the writer goroutine
  pipePending,     \* the pipe write that waits for the reader
  pipeRClosed,     \* the request body (pipe reader) has been closed
  pipeW,           \* the pipe writer: "open", "closed" or "error"
  bodyRead,        \* file bytes the transport has read from the body
  resps,           \* the answers to the requests, in order (0: no answer)
  getCalls,        \* number of calls of GetVideo by UploadFile
  getArg,          \* the identifier of the last call of GetVideo
  uploaderRet,     \* how the chosen uploader returned: "none", "ok", "err"
  uploaderErr,     \* the error the chosen uploader returned, if any
  wrapArg,         \* the err a call of WrapError is given
  wrapRet,         \* what that call returned
  wrapDone,        \* whether that call has returned
  cfgNil,          \* the *Config given to Validate is nil
  cfgGiven,        \* the Config as it was given to Validate
  cfg,             \* the Config Validate works on (it writes defaults into it)
  validateDone,    \* whether Validate has returned
  validateErr,     \* the error Validate returned (NoError: nil)
  env,             \* the CFSTREAM_* environment variables
  cfgFile,         \* the config file at xdg.ConfigHome/cfstream/config.yaml
  saved,           \* the Config of the last Save that returned nil, if any
  loaded,          \* the Config Load returned
  loadDone,        \* whether Load has returned
  loadErr,         \* the error Load returned (NoError: nil)
  chClosed,        \* the upload command has run close(progressCh)
  finishCalled,    \* the upload command has called progressTracker.Finish()
  consumerDone,    \* the consumer goroutine of the upload command has ended
  panicked,        \* the process died of a send on the closed channel
  pollI,           \* i of the loop of pollVideoStatus
  pollCalls,       \* number of calls of GetVideo by pollVideoStatus
  pollLast,        \* what the last of these calls answered
  pollRet,         \* pollVideoStatus: "idle", "running", "nil" or "err"
  pollErr          \* the error pollVideoStatus returned

\* the state of one call of UploadFile
uploadvars == <<filePath, fileOpens, fileSize, optsName, optsMeta, optsSigned,
                chNil, chCap, pc, reqs, filePos, n, offset, location, videoID,
                progressCh, emitCount, lastEmit, received, panicked, result,
                serverCommitted, patchAcks, strategy, fileClosed, directUID,
                uploadURL, wpc, wn, written, pipePending, pipeRClosed, pipeW,
                bodyRead, resps, getCalls, getArg, uploaderRet, uploaderErr>>

\* the state of one call of WrapError on its own
wrapvars == <<wrapArg, wrapRet, wrapDone>>

\* the state of one call of Validate on its own
cfgvars == <<cfgNil, cfgGiven, cfg, validateDone, validateErr>>

\* the environment, the config file and one call of Load
loadvars == <<env, cfgFile, saved, loaded, loadDone, loadErr>>

\* what the upload command does around its call of UploadFile
cmdvars == <<chClosed, finishCalled, consumerDone>>

\* one call of pollVideoStatus
pollvars == <<pollI, pollCalls, pollLast, pollRet, pollErr>>

\* what a call of UploadFile leaves alone
sidevars == <<wrapvars, cfgvars, loadvars, cmdvars, pollvars>>

vars == <<uploadvars, sidevars>>

\* the state of the multipart writer goroutine and of its pipe
mpvars == <<wpc, wn, written, pipePending, pipeRClosed, pipeW, bodyRead>>

inputs == <<filePath, fileOpens, fileSize, optsName, optsMeta, optsSigned,
            chNil, chCap>>

\* the locals of tusUploadDirect and the service's view of its session
tusvars == <<n, offset, location, videoID, serverCommitted, patchAcks>>

\* how the chosen uploader returned to UploadFile
retvars == <<uploaderRet, uploaderErr>>

\* the progress channel and its history
chvars == <<progressCh, emitCount, lastEmit, received, panicked>>

\* the result of CreateDirectUploadURL
directvars == <<directUID, uploadURL>>

\* the calls of GetVideo
getvars == <<getCalls, getArg>>

NoResult == [done |-> FALSE, ok |-> FALSE, uid |-> <<>>, err |-> NoError]
Failure(err) == [done |-> TRUE, ok |-> FALSE, uid |-> <<>>, err |-> err]
Success(uid) == [done |-> TRUE, ok |-> TRUE, uid |-> uid, err |-> NoError]

NoEmit == [sent |-> -1, total |-> -1, dropped |-> FALSE]

\* the state before a call of UploadFile
InitUpload ==
  /\ filePath \in FilePaths
  /\ fileOpens \in BOOLEAN
  /\ fileSize \in FileSizes
  /\ \E o \in UploadOptionsGiven :
       /\ optsName = o.Name
       /\ optsMeta = o.Metadata
       /\ optsSigned = o.RequireSignedURLs
  /\ chNil \in BOOLEAN
  /\ chCap \in 0..MaxChanCap
  /\ (chNil => chCap = 0)
  /\ (LongSingleShot(fileSize) => chNil)
  /\ pc = "start"
  /\ reqs = <<>>
  /\ filePos = 0
  /\ n = 0
  /\ offset = 0
  /\ location = <<>>
  /\ videoID = <<>>
  /\ progressCh = <<>>
  /\ emitCount = 0
  /\ lastEmit = NoEmit
  /\ received = 0
  /\ panicked = FALSE
  /\ result = NoResult
  /\ serverCommitted = 0
  /\ patchAcks = 0
  /\ strategy = "none"
  /\ fileClosed = FALSE
  /\ directUID = <<>>
  /\ uploadURL = <<>>
  /\ wpc = "w_none"
  /\ wn = 0
  /\ written = 0
  /\ pipePending = "none"
  /\ pipeRClosed = FALSE
  /\ pipeW = "open"
  /\ bodyRead = 0
  /\ resps = <<>>
  /\ getCalls = 0
  /\ getArg = <<>>
  /\ uploaderRet = "none"
  /\ uploaderErr = NoError

\* no call of WrapError on its own
WrapIdle ==
  /\ wrapArg = NoError
  /\ wrapRet = NoError
  /\ wrapDone = FALSE

\* the zero Config
NoConfig ==
  [AccountID |-> <<>>, APIToken |-> <<>>, DefaultOutput |-> <<>>,
   DefaultSignedDuration |-> <<>>]

\* no call of Validate on its own
ConfigIdle ==
  /\ cfgNil = FALSE
  /\ cfgGiven = NoConfig
  /\ cfg = NoConfig
  /\ validateDone = FALSE
  /\ validateErr = NoError

\* an environment variable that is not set
Unset == [set |-> FALSE, val |-> <<>>]

\* no config file
NoFile == [state |-> "absent", keys |-> {}, vals |-> NoConfig]

\* no call of Load or Save
LoadIdle ==
  /\ env = [AccountID |-> Unset, APIToken |-> Unset, DefaultOutput |-> Unset]
  /\ cfgFile = NoFile
  /\ saved = [done |-> FALSE, cfg |-> NoConfig]
  /\ loaded = NoConfig
  /\ loadDone = FALSE
  /\ loadErr = NoError

\* the caller of UploadFile has not closed the channel: a call of UploadFile
\* on its own, or the upload command before UploadFile returns
CmdIdle ==
  /\ chClosed = FALSE
  /\ finishCalled = FALSE
  /\ consumerDone = FALSE

\* no answer of GetVideo to pollVideoStatus yet
NoPoll == [err |-> FALSE, ready |-> FALSE, status |-> ""]

\* no call of pollVideoStatus
PollIdle ==
  /\ pollI = 0
  /\ pollCalls = 0
  /\ pollLast = NoPoll
  /\ pollRet = "idle"
  /\ pollErr = NoError

\* no call of UploadFile: the inputs are pinned and the call never starts
UploadIdle ==
  /\ InitUpload
  /\ filePath = "" /\ ~fileOpens /\ fileSize = 0
  /\ optsName = "" /\ chNil

Init == InitUpload /\ WrapIdle /\ ConfigIdle /\ LoadIdle /\ CmdIdle /\ PollIdle

\* ------------------------------------------------------------ progress send
\* select { case progressCh <- p: default: } guarded by progressCh != nil.
\* The send succeeds when the buffer has room, or when a receiver is
\* waiting on the channel (ready); otherwise the update is dropped.
Accepts(ready) == Len(progressCh) < chCap \/ (ready /\ progressCh = <<>>)

\* progressCh <- p without the default case: the send waits for room
SendProgressBlocking(p, ready) ==
  IF chNil
    THEN UNCHANGED chvars
    ELSE IF chClosed
    THEN /\ panicked' = TRUE
         /\ UNCHANGED <<progressCh, emitCount, lastEmit, received>>
    ELSE /\ Accepts(ready)
         /\ UNCHANGED panicked
         /\ emitCount' = emitCount + 1
         /\ lastEmit' = [sent |-> p.sent, total |-> p.total, dropped |-> FALSE]
         /\ IF Len(progressCh) < chCap
              THEN /\ progressCh' = Append(progressCh, p)
                   /\ UNCHANGED received
              ELSE /\ received' = received + 1
                   /\ UNCHANGED progressCh

SendProgress(p, ready) ==
  IF chNil
    THEN UNCHANGED chvars
    ELSE IF chClosed
    THEN /\ panicked' = TRUE    \* panic: send on closed channel
         /\ UNCHANGED <<progressCh, emitCount, lastEmit, received>>
    ELSE /\ UNCHANGED panicked
         /\ emitCount' = emitCount + 1
         /\ lastEmit' = [sent |-> p.sent, total |-> p.total, dropped |-> ~Accepts(ready)]
         /\ IF Len(progressCh) < chCap
              THEN /\ progressCh' = Append(progressCh, p)
                   /\ UNCHANGED received
              ELSE IF ready /\ progressCh = <<>>
                THEN /\ received' = received + 1
                     /\ UNCHANGED progressCh
                ELSE UNCHANGED <<progressCh, received>>

\* the consumer: for progress := range progressCh { ... }
Receive ==
  /\ ~panicked
  /\ progressCh # <<>>
  /\ progressCh' = Tail(progressCh)
  /\ received' = received + 1
  /\ UNCHANGED <<sidevars, inputs, retvars, getvars, resps, pc, reqs, filePos,
                 result, strategy, fileClosed, tusvars, directvars, mpvars,
                 emitCount, lastEmit, panicked>>

\* ------------------------------------------------------------- UploadFile
\* fileSize > tusThreshold: the boundary on the wrong side
UseTusAbove(size) == size > tusThreshold

\* fileSize >= tusThreshold
UseTus(size) == size >= tusThreshold

\* a return of UploadFile after the file was opened: the deferred
\* file.Close() runs
Return(res) ==
  /\ result' = res
  /\ pc' = "done"
  /\ fileClosed' = TRUE

\* the session-open POST sent with the file as its body
TusOpenRequestWithFile(size, name) ==
  Request("TusOpen", TusURL, -1, -1, size, name, 0, size)

\* http.NewRequestWithContext(ctx, http.MethodPost, tusURL, nil) with the
\* headers Upload-Length: fileSize and, when opts.Name != "", Upload-Metadata:
\* name <base64 of opts.Name> (name "": the header is not set)
TusOpenRequest(size, name) ==
  Request("TusOpen", TusURL, -1, -1, size, name, 0, 0)

\* UploadFile up to its first network request: argument check, os.Open,
\* Stat, strategy selection, and the request the chosen strategy starts with
\* (the session-open POST, or the POST of CreateDirectUploadURL).
UploadStart ==
  /\ pc = "start"
  /\ IF filePath = ""
       THEN /\ result' = Failure(<<"file path cannot be empty", ErrInvalidInput>>)
            /\ pc' = "done"
            /\ UNCHANGED <<reqs, strategy>>
     ELSE IF ~fileOpens
       THEN /\ result' = Failure(<<"failed to open file", "os: open failed">>)
            /\ pc' = "done"
            /\ UNCHANGED <<reqs, strategy>>
     ELSE IF UseTus(fileSize)
       THEN /\ strategy' = "tus"
            /\ reqs' = Append(reqs, TusOpenRequest(fileSize, optsName))
            /\ pc' = "tus_open_wait"
            /\ UNCHANGED result
       ELSE /\ strategy' = "multipart"
            /\ reqs' = Append(reqs, DirectUploadRequest(TRUE))
            /\ pc' = "direct_wait"
            /\ UNCHANGED result
  /\ UNCHANGED <<sidevars, inputs, retvars, getvars, resps, filePos, fileClosed,
                 tusvars, chvars, directvars, mpvars>>

\* ------------------------------------------------------- tusUploadDirect
\* a failed chunk request is sent again instead of ending the upload
TusFailRetry(err) ==
  IF pc = "tus_patch_wait"
    THEN /\ pc' = "tus_send"
         /\ UNCHANGED <<result, fileClosed, retvars>>
    ELSE /\ Return(Failure(Wrap("TUS upload failed", err)))
         /\ uploaderRet' = "err"
         /\ uploaderErr' = err

\* a failed chunk is skipped and the loop goes on with the next read
TusFailSkipChunk(err) ==
  IF pc = "tus_patch_wait"
    THEN /\ pc' = "tus_read"
         /\ UNCHANGED <<result, fileClosed, retvars>>
    ELSE /\ Return(Failure(Wrap("TUS upload failed", err)))
         /\ uploaderRet' = "err"
         /\ uploaderErr' = err

\* the error of the uploader is recorded and the Video fetched all the same
TusFailThenFetch(err) ==
  /\ pc' = "getvideo"
  /\ uploaderRet' = "err"
  /\ uploaderErr' = err
  /\ UNCHANGED <<result, fileClosed>>

\* if err != nil { return nil, fmt.Errorf("TUS upload failed: %w", err) }
\* after any return "", err of tusUploadDirect
TusFail(err) ==
  /\ Return(Failure(Wrap("TUS upload failed", err)))
  /\ uploaderRet' = "err"
  /\ uploaderErr' = err

\* any 2xx answer to the session-open taken for success
SessionCreatedAny2xx(st) == st >= 200 /\ st < 300

\* resp.StatusCode != http.StatusCreated is a failure
SessionCreated(st) == st = 201

\* videoID := locationParts[len(locationParts)-1]
VideoIDOf(loc) == Last(Split(loc, "/"))

\* the answer to the session-open POST
TusOpenResponse ==
  /\ pc = "tus_open_wait"
  /\ \/ /\ TusFail(Wrap("failed to initiate TUS upload", NetError))
        /\ resps' = Append(resps, NoAnswer)
        /\ UNCHANGED <<location, videoID>>
     \/ \E st \in OpenStatuses, loc \in Locations :
          /\ resps' = Append(resps, st)
          /\ IF ~SessionCreated(st)
               THEN /\ TusFail(<<"TUS upload initiation failed with status">>)
                    /\ UNCHANGED <<location, videoID>>
             ELSE IF loc = <<>>
               THEN /\ TusFail(<<"TUS upload location not returned">>)
                    /\ UNCHANGED <<location, videoID>>
             ELSE /\ location' = loc
                  /\ videoID' = VideoIDOf(loc)
                  /\ pc' = "tus_read"
                  /\ UNCHANGED <<result, fileClosed, retvars>>
  /\ UNCHANGED <<sidevars, inputs, getvars, reqs, filePos, strategy, n, offset,
                 serverCommitted, patchAcks, chvars, directvars, mpvars>>

\* n, err := file.Read(buffer) and the two checks that follow it
\* a reader that fills the whole buffer whatever is left of the file
FileReadWholeBuffer(pos, size, buflen) == IF pos < size THEN buflen ELSE 0

\* the count of file.Read(buffer) on a regular file: the bytes that are
\* left, at most len(buffer); 0 (with io.EOF) at the end of the file
FileRead(pos, size, buflen) == Min(buflen, size - pos)

TusRead ==
  /\ pc = "tus_read"
  /\ \/ /\ n' = FileRead(filePos, fileSize, chunkSize)
        /\ filePos' = filePos + n'
        /\ IF n' = 0     \* n == 0 && err == io.EOF: break, return videoID
             THEN pc' = "getvideo" /\ uploaderRet' = "ok"
             ELSE pc' = "tus_send" /\ UNCHANGED uploaderRet
        /\ UNCHANGED uploaderErr
        /\ UNCHANGED <<result, fileClosed>>
     \/ /\ TusFail(Wrap("failed to read file", <<"read: input/output error">>))
        /\ UNCHANGED <<n, filePos>>
  /\ UNCHANGED <<sidevars, inputs, getvars, resps, reqs, strategy, offset, location,
                 videoID, serverCommitted, patchAcks, chvars, directvars,
                 mpvars>>

\* build the PATCH request for buffer[:n] and hand it to client.Do
TusSendChunk ==
  /\ pc = "tus_send"
  /\ IF ~URLParses(location)
       THEN /\ TusFail(Wrap("failed to create chunk request", <<"net/url: invalid URL escape">>))
            /\ UNCHANGED reqs
       ELSE /\ reqs' = Append(reqs, Request("Patch", location, offset, n, -1, "", filePos - n, n))
            /\ pc' = "tus_patch_wait"
            /\ UNCHANGED <<result, fileClosed, retvars>>
  /\ UNCHANGED <<sidevars, inputs, getvars, resps, filePos, strategy, tusvars, chvars,
                 directvars, mpvars>>

\* the answer to a PATCH.  The service commits the chunk when it answers
\* 204; when the request fails in transport the chunk may or may not have
\* been committed.
\* any 2xx answer to a chunk taken for success
ChunkAcceptedAny2xx(st) == st >= 200 /\ st < 300

\* chunkResp.StatusCode != http.StatusNoContent is a failure
ChunkAccepted(st) == st = 204

\* offset = int64(n): the offset is overwritten instead of advanced
NextOffsetAssigned(off, len) == len

\* the offset is never advanced: every chunk is sent for offset 0
NextOffsetKept(off, len) == off

\* offset += int64(n)
NextOffset(off, len) == off + len

TusChunkResponse ==
  /\ pc = "tus_patch_wait"
  /\ \/ /\ \E cause \in TransportErrors :
             TusFail(Wrap("chunk upload failed", cause))
        /\ resps' = Append(resps, NoAnswer)
        /\ \E lost \in BOOLEAN :
             serverCommitted' = IF lost THEN serverCommitted + n ELSE serverCommitted
        /\ UNCHANGED <<offset, patchAcks>>
     \/ \E st \in PatchStatuses :
          /\ resps' = Append(resps, st)
          /\ serverCommitted' = IF st = 204 THEN serverCommitted + n ELSE serverCommitted
          /\ patchAcks' = IF st = 204 THEN patchAcks + 1 ELSE patchAcks
          /\ IF ~ChunkAccepted(st)
               THEN /\ TusFail(<<"chunk upload failed with status">>)
                    /\ UNCHANGED offset
               ELSE /\ offset' = NextOffset(offset, n)
                    /\ pc' = "tus_progress"
                    /\ UNCHANGED <<result, fileClosed, retvars>>
  /\ UNCHANGED <<sidevars, inputs, getvars, reqs, filePos, strategy, n, location,
                 videoID, chvars, directvars, mpvars>>

\* the progress send after an acknowledged chunk, then the end of the loop
\* body (err == io.EOF never holds here: os.File.Read reports EOF with n == 0)
\* UploadProgress{BytesSent: int64(n), ...}: the chunk instead of the total
TusProgressValueChunk(off, len, total) == [sent |-> len, total |-> total]

\* UploadProgress{BytesSent: offset, BytesTotal: fileSize}
TusProgressValue(off, len, total) == [sent |-> off, total |-> total]

TusProgress ==
  /\ pc = "tus_progress"
  /\ \E ready \in BOOLEAN : SendProgress(TusProgressValue(offset, n, fileSize), ready)
  /\ pc' = "tus_read"
  /\ UNCHANGED <<sidevars, inputs, retvars, getvars, resps, reqs, filePos, result,
                 strategy, fileClosed, tusvars, directvars, mpvars>>

\* ------------------------------------------------- CreateDirectUploadURL
\* the answer to the POST of CreateDirectUploadURL, as UploadFile sees it
DirectURLResponse ==
  /\ pc = "direct_wait"
  /\ \/ /\ Return(Failure(<<"failed to create direct upload URL",
                            "failed to execute request">> \o NetError))
        /\ resps' = Append(resps, NoAnswer)
        /\ UNCHANGED directvars
     \/ \E st \in DirectStatuses, body \in DirectBodies,
           uid \in DirectUIDs, url \in UploadURLs :
          /\ resps' = Append(resps, st)
          /\ IF st # 200
               THEN /\ Return(Failure(<<"failed to create direct upload URL",
                                        "API request failed with status">>))
                    /\ UNCHANGED directvars
             ELSE IF body = "unparseable"
               THEN /\ Return(Failure(<<"failed to create direct upload URL",
                                        "failed to parse response">>))
                    /\ UNCHANGED directvars
             ELSE IF body = "unsuccessful"
               THEN /\ Return(Failure(<<"failed to create direct upload URL",
                                        "API request failed">>))
                    /\ UNCHANGED directvars
             ELSE /\ directUID' = uid
                  /\ uploadURL' = url
                  /\ pc' = "mp_start"
                  /\ UNCHANGED <<result, fileClosed>>
  /\ UNCHANGED <<sidevars, inputs, retvars, getvars, reqs, filePos, strategy,
                 tusvars, chvars, mpvars>>

\* -------------------------------------------------------- multipartUpload
MultipartFail(err) ==
  /\ Return(Failure(Wrap("upload failed", err)))
  /\ uploaderRet' = "err"
  /\ uploaderErr' = err

PostSent == \E i \in 1..Len(reqs) : reqs[i].kind = "MultipartPost"

\* the POST goes to the API endpoint instead of the upload URL
MultipartRequestToAPI(url, size) ==
  Request("MultipartPost", DirectURL, -1, -1, -1, "", 0, size)

\* http.NewRequestWithContext(ctx, http.MethodPost, uploadURL, pr): the body
\* is the read end of the pipe the writer streams the whole file into
MultipartRequest(url, size) ==
  Request("MultipartPost", url, -1, -1, -1, "", 0, size)

\* io.Pipe(), go func() { ... }(), http.NewRequestWithContext, and the
\* hand-over of the request to client.Do
MultipartStart ==
  /\ pc = "mp_start"
  /\ wpc' = "w_start"
  /\ IF ~URLParses(uploadURL)
       THEN /\ MultipartFail(Wrap("failed to create upload request",
                                  <<"net/url: invalid URL escape">>))
            /\ UNCHANGED reqs
       ELSE /\ reqs' = Append(reqs, MultipartRequest(uploadURL, fileSize))
            /\ pc' = "mp_wait"
            /\ UNCHANGED <<result, fileClosed, retvars>>
  /\ UNCHANGED <<sidevars, inputs, getvars, resps, filePos, strategy, tusvars, chvars,
                 directvars, wn, written, pipePending, pipeRClosed, pipeW,
                 bodyRead>>

\* the writer goroutine leaves: pw.CloseWithError(err) and the deferred
\* writer.Close() and pw.Close(), which find the pipe closed
WriterAbort ==
  /\ wpc' = "w_exit"
  /\ pipeW' = IF pipeW = "open" THEN "error" ELSE pipeW
  /\ pipePending' = "none"

\* writer.CreateFormFile: writes the part header into the pipe
WriterCreateFormFile ==
  /\ ~panicked
  /\ wpc = "w_start"
  /\ IF pipeRClosed
       THEN WriterAbort
       ELSE /\ pipePending' = "header"
            /\ wpc' = "w_header"
            /\ UNCHANGED pipeW
  /\ UNCHANGED <<sidevars, inputs, retvars, getvars, resps, pc, reqs, filePos,
                 result, strategy, fileClosed, tusvars, chvars, directvars,
                 wn, written, pipeRClosed, bodyRead>>

\* the header write returns: the reader took it, or closed the pipe
WriterHeaderDone ==
  /\ ~panicked
  /\ wpc = "w_header"
  /\ pipePending = "none" \/ pipeRClosed
  /\ IF pipePending = "none"
       THEN /\ wpc' = "w_read"
            /\ UNCHANGED <<pipePending, pipeW>>
       ELSE WriterAbort
  /\ UNCHANGED <<sidevars, inputs, retvars, getvars, resps, pc, reqs, filePos,
                 result, strategy, fileClosed, tusvars, chvars, directvars,
                 wn, written, pipeRClosed, bodyRead>>

\* n, err := file.Read(buffer); on n > 0 the write of buffer[:n] into the
\* pipe starts; on EOF the loop ends and the deferred writer.Close() writes
\* the closing boundary
WriterRead ==
  /\ ~panicked
  /\ wpc = "w_read"
  /\ IF fileClosed
       THEN /\ WriterAbort       \* read |0: file already closed
            /\ UNCHANGED <<wn, filePos>>
       ELSE \/ /\ WriterAbort    \* read error
               /\ UNCHANGED <<wn, filePos>>
            \/ /\ wn' = FileRead(filePos, fileSize, bufferSize)
               /\ filePos' = filePos + wn'
               /\ IF wn' > 0
                    THEN IF pipeRClosed
                           THEN WriterAbort
                           ELSE /\ pipePending' = "data"
                                /\ wpc' = "w_write"
                                /\ UNCHANGED pipeW
                    ELSE IF pipeRClosed
                           THEN /\ wpc' = "w_exit"
                                /\ pipeW' = "closed"
                                /\ UNCHANGED pipePending
                           ELSE /\ pipePending' = "trailer"
                                /\ wpc' = "w_trailer"
                                /\ UNCHANGED pipeW
  /\ UNCHANGED <<sidevars, inputs, retvars, getvars, resps, pc, reqs, result,
                 strategy, fileClosed, tusvars, chvars, directvars, written,
                 pipeRClosed, bodyRead>>

\* UploadProgress{BytesSent: written, BytesTotal: fileSize}
WriterProgressValue(w, len, total) == [sent |-> w, total |-> total]

\* part.Write returns; written += n; the progress send
WriterWritten ==
  /\ ~panicked
  /\ wpc = "w_write"
  /\ pipePending = "none" \/ pipeRClosed
  /\ IF pipePending = "none"
       THEN /\ written' = written + wn
            /\ \E ready \in BOOLEAN :
                 SendProgress(WriterProgressValue(written', wn, fileSize), ready)
            /\ wpc' = "w_read"
            /\ UNCHANGED <<pipePending, pipeW>>
       ELSE /\ WriterAbort
            /\ UNCHANGED <<written, chvars>>
  /\ UNCHANGED <<sidevars, inputs, retvars, getvars, resps, pc, reqs, filePos,
                 result, strategy, fileClosed, tusvars, directvars, wn,
                 pipeRClosed, bodyRead>>

\* the deferred writer.Close() returns; the deferred pw.Close()
WriterTrailerDone ==
  /\ ~panicked
  /\ wpc = "w_trailer"
  /\ pipePending = "none" \/ pipeRClosed
  /\ wpc' = "w_exit"
  /\ pipeW' = "closed"
  /\ pipePending' = "none"
  /\ UNCHANGED <<sidevars, inputs, retvars, getvars, resps, pc, reqs, filePos,
                 result, strategy, fileClosed, tusvars, chvars, directvars,
                 wn, written, pipeRClosed, bodyRead>>

\* the HTTP transport reads the request body: it takes the pending write
TransportRead ==
  /\ ~panicked
  /\ PostSent
  /\ ~pipeRClosed
  /\ pipePending # "none"
  /\ bodyRead' = bodyRead + (IF pipePending = "data" THEN wn ELSE 0)
  /\ pipePending' = "none"
  /\ UNCHANGED <<sidevars, inputs, retvars, getvars, resps, pc, reqs, filePos,
                 result, strategy, fileClosed, tusvars, chvars, directvars,
                 wpc, wn, written, pipeRClosed, pipeW>>

\* the HTTP transport closes the request body: after it has read it to the
\* end, or at some time after client.Do has returned
TransportCloseBody ==
  /\ ~panicked
  /\ PostSent
  /\ ~pipeRClosed
  /\ pc # "mp_wait" \/ (pipeW # "open" /\ pipePending = "none")
  /\ pipeRClosed' = TRUE
  /\ UNCHANGED <<sidevars, inputs, retvars, getvars, resps, pc, reqs, filePos,
                 result, strategy, fileClosed, tusvars, chvars, directvars,
                 wpc, wn, written, pipePending, pipeW, bodyRead>>

\* the service has the whole multipart body
BodyComplete == pipeW = "closed" /\ pipePending = "none"

\* only 200 taken for success: a 201 answer fails the upload
MultipartOKOnly200(st) == st = 200

\* resp.StatusCode != http.StatusOK && resp.StatusCode != http.StatusCreated
\* is a failure
MultipartOK(st) == st = 200 \/ st = 201

\* client.Do returns.  A network error can come at any time and an error
\* status as soon as the service has seen the request; the service answers
\* 200 or 201 only when it has received the whole body, and it stores the
\* video when it answers so; when the request fails in transport after the
\* whole body was sent, the video may or may not have been stored.
MultipartResponse ==
  /\ pc = "mp_wait"
  /\ \/ /\ \E cause \in TransportErrors :
             MultipartFail(Wrap("upload request failed", cause))
        /\ resps' = Append(resps, NoAnswer)
        /\ \E lost \in BOOLEAN :
             serverCommitted' = IF lost /\ BodyComplete THEN bodyRead
                                ELSE serverCommitted
     \/ \E st \in MultipartStatuses :
          /\ st \in {200, 201} => BodyComplete
          /\ resps' = Append(resps, st)
          /\ serverCommitted' = IF st \in {200, 201} THEN bodyRead
                                ELSE serverCommitted
          /\ IF ~MultipartOK(st)
               THEN MultipartFail(<<"upload failed with status">>)
               ELSE /\ pc' = "getvideo"
                    /\ uploaderRet' = "ok"
                    /\ UNCHANGED uploaderErr
                    /\ UNCHANGED <<result, fileClosed>>
  /\ UNCHANGED <<sidevars, inputs, getvars, reqs, filePos, strategy, n, offset,
                 location, videoID, patchAcks, chvars, directvars, mpvars>>

\* ---------------------------------------------------------------- GetVideo
\* 401 and 403 both taken for ErrUnauthorized
WrapAPIErrorNoForbidden(status) ==
  CASE status = 404 -> <<ErrNotFound, "api error">>
    [] status = 401 -> <<ErrUnauthorized, "api error">>
    [] status = 403 -> <<ErrUnauthorized, "api error">>
    [] status = 429 -> <<ErrRateLimit, "api error">>
    [] status = 400 -> <<ErrInvalidInput, "api error">>
    [] OTHER -> <<"API error (status)", "api error">>

\* wrapAPIError: the sentinel a Cloudflare API error maps to, by status
WrapAPIError(status) ==
  CASE status = 404 -> <<ErrNotFound, "api error">>
    [] status = 401 -> <<ErrUnauthorized, "api error">>
    [] status = 403 -> <<ErrForbidden, "api error">>
    [] status = 429 -> <<ErrRateLimit, "api error">>
    [] status = 400 -> <<ErrInvalidInput, "api error">>
    [] OTHER -> <<"API error (status)", "api error">>

\* WrapError: nil stays nil, an error with a *cloudflare.Error in its chain
\* is mapped by wrapAPIError, any other error is returned as it is
WrapError(err) ==
  IF err = NoError THEN NoError
  ELSE IF ErrorsAs(err) # 0 THEN WrapAPIError(StatusCode(err[ErrorsAs(err)]))
  ELSE err

\* what c.sdk.Stream.Get returns for an answer of the service
SDKError(st) ==
  IF st = 200 THEN NoError
  ELSE IF st = NoAnswer THEN NetError
  ELSE <<APIError(st)>>

\* the identifier is taken from the session in both branches
GetVideoArgFromSession == videoID

\* the identifier UploadFile passes to GetVideo: videoID in the TUS branch,
\* directResult.UID after the multipart upload
GetVideoArg == IF strategy = "tus" THEN videoID ELSE directUID

\* c.GetVideo(ctx, id) as called by UploadFile
GetVideoCall ==
  /\ pc = "getvideo"
  /\ getCalls' = getCalls + 1
  /\ getArg' = GetVideoArg
  /\ IF GetVideoArg = <<>>
       THEN /\ Return(Failure(<<"failed to get video details",
                                "video ID cannot be empty", ErrInvalidInput>>))
            /\ UNCHANGED reqs
       ELSE /\ reqs' = Append(reqs, Request("GetVideo", GetVideoArg, -1, -1, -1, "", 0, 0))
            /\ pc' = "getvideo_wait"
            /\ UNCHANGED <<result, fileClosed>>
  /\ UNCHANGED <<sidevars, inputs, retvars, resps, filePos, strategy, tusvars,
                 chvars, directvars, mpvars>>

\* the error of GetVideo is dropped and the Video built from the identifier
UploadFileResultIgnoringError(st, id) == Success(id)

\* video, err := c.GetVideo(...); if err != nil { return nil, ... };
\* return video, nil
UploadFileResult(st, id) ==
  LET err == IF SDKError(st) = NoError THEN NoError   \* GetVideo
             ELSE WrapError(SDKError(st))
  IN IF err = NoError THEN Success(id)
     ELSE Failure(Wrap("failed to get video details", err))

GetVideoResponse ==
  /\ pc = "getvideo_wait"
  /\ \E st \in {200, NoAnswer} \cup GetStatuses :
       /\ resps' = Append(resps, st)
       /\ Return(UploadFileResult(st, getArg))
  /\ UNCHANGED <<sidevars, inputs, retvars, getvars, reqs, filePos, strategy,
                 tusvars, chvars, directvars, mpvars>>

Next ==
  \/ UploadStart
  \/ TusOpenResponse
  \/ TusRead
  \/ TusSendChunk
  \/ TusChunkResponse
  \/ TusProgress
  \/ DirectURLResponse
  \/ MultipartStart
  \/ WriterCreateFormFile
  \/ WriterHeaderDone
  \/ WriterRead
  \/ WriterWritten
  \/ WriterTrailerDone
  \/ TransportRead
  \/ TransportCloseBody
  \/ MultipartResponse
  \/ GetVideoCall
  \/ GetVideoResponse
  \/ Receive

Spec == Init /\ [][Next]_vars

\* --------------------------------------------------------------- WrapError
\* a call of WrapError on its own, as in TestWrapError
InitWrap ==
  /\ UploadIdle
  /\ ConfigIdle
  /\ LoadIdle
  /\ CmdIdle
  /\ PollIdle
  /\ wrapArg \in SDKErrors
  /\ wrapRet = NoError
  /\ wrapDone = FALSE

WrapErrorCall ==
  /\ ~wrapDone
  /\ wrapRet' = WrapError(wrapArg)
  /\ wrapDone' = TRUE
  /\ UNCHANGED <<wrapArg, uploadvars, cfgvars, loadvars, cmdvars,
                 pollvars>>

SpecWrap == InitWrap /\ [][WrapErrorCall]_vars

\* ---------------------------------------------------------------- Validate
\* strings of the configuration are sequences of characters
STable == <<"t", "a", "b", "l", "e">>
SJson == <<"j", "s", "o", "n">>
SYaml == <<"y", "a", "m", "l">>
SXml == <<"x", "m", "l">>
SJsonUpper == <<"J", "S", "O", "N">>
SJsonPadded == <<" ", "j", "s", "o", "n", " ">>
SBlank == <<" ", " ">>
S1h == <<"1", "h">>

\* the values the fields of a Config are tried with
AccountIDs == {<<>>, SBlank, <<"a", "c", "c", "t">>}
APITokens == {<<>>, SBlank, <<"t", "o", "k">>}
DefaultOutputs ==
  {<<>>, SBlank, STable, SJson, SYaml, SXml, SJsonUpper, SJsonPadded}
DefaultSignedDurations ==
  {<<>>, SBlank, S1h, <<"3", "0", "m">>, <<"1", "h", "3", "0", "m">>, <<"i", "n", "v", "a", "l", "i", "d">>, <<" ", "1", "h", " ">>, <<"1">>,
   <<"0">>, <<"1", ".", "5", "h">>, <<"-", "1", "h">>, <<"5", "0", "0", "m", "s">>, <<"1", "d">>}

\* strings.TrimSpace
RECURSIVE TrimLeft(_)
TrimLeft(s) == IF s # <<>> /\ Head(s) = " " THEN TrimLeft(Tail(s)) ELSE s
RECURSIVE TrimRight(_)
TrimRight(s) ==
  IF s # <<>> /\ s[Len(s)] = " " THEN TrimRight(SubSeq(s, 1, Len(s) - 1))
  ELSE s
TrimSpace(s) == TrimRight(TrimLeft(s))

\* strings.ToLower, on the letters the values above are written with
LowerOf(ch) ==
  CASE ch = "J" -> "j"
    [] ch = "S" -> "s"
    [] ch = "O" -> "o"
    [] ch = "N" -> "n"
    [] OTHER -> ch
ToLower(s) == [i \in 1..Len(s) |-> LowerOf(s[i])]

\* time.ParseDuration succeeds: [-+]?([0-9]*(\.[0-9]*)?[a-z]+)+ with units
\* ns, us, ms, s, m, h, or the string "0" (overflow cannot happen with the
\* short strings tried here)
Digits == {"0", "1", "2", "3", "4", "5", "6", "7", "8", "9"}
DurationUnits ==
  {<<"n", "s">>, <<"u", "s">>, <<"m", "s">>, <<"s">>, <<"m">>, <<"h">>}

\* the first position from i on where s has no digit
RECURSIVE SkipDigits(_, _)
SkipDigits(s, i) ==
  IF i <= Len(s) /\ s[i] \in Digits THEN SkipDigits(s, i + 1) ELSE i

\* the first position from i on where s has a digit or a "."
RECURSIVE SkipUnit(_, _)
SkipUnit(s, i) ==
  IF i <= Len(s) /\ s[i] \notin Digits /\ s[i] # "." THEN SkipUnit(s, i + 1)
  ELSE i

\* the loop of ParseDuration from position i: number, unit, and again
RECURSIVE DurationTerms(_, _)
DurationTerms(s, i) ==
  IF i > Len(s) THEN TRUE
  ELSE IF s[i] \notin Digits /\ s[i] # "." THEN FALSE
  ELSE LET afterInt == SkipDigits(s, i)
           hasDot == afterInt <= Len(s) /\ s[afterInt] = "."
           afterFrac == IF hasDot THEN SkipDigits(s, afterInt + 1) ELSE afterInt
           noDigits == afterInt = i /\ (~hasDot \/ afterFrac = afterInt + 1)
           afterUnit == SkipUnit(s, afterFrac)
       IN /\ ~noDigits
          /\ afterUnit > afterFrac
          /\ SubSeq(s, afterFrac, afterUnit - 1) \in DurationUnits
          /\ DurationTerms(s, afterUnit)

ParseDurationOK(s) ==
  LET t == IF s # <<>> /\ Head(s) \in {"-", "+"} THEN Tail(s) ELSE s
  IN t = <<"0">> \/ (t # <<>> /\ DurationTerms(t, 1))

\* "xml" taken for a valid output format
ValidOutputsWithXML == {STable, SJson, SYaml, SXml}

\* validOutputs := map[string]bool{"table": true, "json": true, "yaml": true}
ValidOutputs == {STable, SJson, SYaml}

\* Validate(cfg): the error it returns and the Config it leaves
Validate(isNil, c) ==
  IF isNil THEN [err |-> <<"config cannot be nil">>, cfg |-> c]
  ELSE IF TrimSpace(c.AccountID) = <<>>
    THEN [err |-> <<"account_id is required">>, cfg |-> c]
  ELSE IF TrimSpace(c.APIToken) = <<>>
    THEN [err |-> <<"api_token is required">>, cfg |-> c]
  ELSE
    LET trimmed == ToLower(TrimSpace(c.DefaultOutput))
        output == IF trimmed = <<>> THEN STable ELSE trimmed
        c1 == IF trimmed = <<>> THEN [c EXCEPT !.DefaultOutput = STable] ELSE c
    IN IF output \notin ValidOutputs
         THEN [err |-> <<"default_output must be one of: table, json, yaml">>,
               cfg |-> c1]
       ELSE
         LET c2 == IF TrimSpace(c1.DefaultSignedDuration) = <<>>
                     THEN [c1 EXCEPT !.DefaultSignedDuration = S1h]
                     ELSE c1
         IN IF ~ParseDurationOK(c2.DefaultSignedDuration)
              THEN [err |-> <<"default_signed_duration must be a valid duration string",
                              "time: invalid duration">>,
                    cfg |-> c2]
              ELSE [err |-> NoError, cfg |-> c2]

\* a call of Validate on its own, as in TestValidate_*
InitValidate ==
  /\ UploadIdle
  /\ WrapIdle
  /\ LoadIdle
  /\ CmdIdle
  /\ PollIdle
  /\ cfgNil \in BOOLEAN
  /\ cfgGiven \in [AccountID : AccountIDs, APIToken : APITokens,
                   DefaultOutput : DefaultOutputs,
                   DefaultSignedDuration : DefaultSignedDurations]
  /\ cfgNil => cfgGiven = NoConfig
  /\ cfg = cfgGiven
  /\ validateDone = FALSE
  /\ validateErr = NoError

ValidateCall ==
  /\ ~validateDone
  /\ validateErr' = Validate(cfgNil, cfg).err
  /\ cfg' = Validate(cfgNil, cfg).cfg
  /\ validateDone' = TRUE
  /\ UNCHANGED <<cfgNil, cfgGiven, uploadvars, wrapvars, loadvars, cmdvars,
                 pollvars>>

SpecValidate == InitValidate /\ [][ValidateCall]_vars

\* --------------------------------------------------------------- Load, Save
\* the fields of a Config, which are the keys of the config file too
ConfigKeys == {"AccountID", "APIToken", "DefaultOutput", "DefaultSignedDuration"}

\* v.BindEnv: the keys that have an environment variable
BoundKeys == {"AccountID", "APIToken", "DefaultOutput"}

\* the values of an environment variable: not set, set to the empty string,
\* or set to a value
EnvValues(val) ==
  {Unset, [set |-> TRUE, val |-> <<>>], [set |-> TRUE, val |-> val]}
Environments ==
  [AccountID : EnvValues(<<"e", "a">>), APIToken : EnvValues(<<"e", "t">>),
   DefaultOutput : EnvValues(SJson)]

\* the config files tried: none, one that cannot be opened, one that is
\* not YAML, and files that have any of the keys
FileConfig ==
  [AccountID |-> <<"f", "a">>, APIToken |-> <<"f", "t">>,
   DefaultOutput |-> SYaml, DefaultSignedDuration |-> <<"2", "h">>]
ConfigFiles ==
  {NoFile,
   [state |-> "denied", keys |-> ConfigKeys, vals |-> FileConfig],
   [state |-> "malformed", keys |-> {}, vals |-> NoConfig]}
    \cup {[state |-> "present", keys |-> ks, vals |-> FileConfig] :
            ks \in SUBSET ConfigKeys}

\* the Configs given to Save
SaveConfigs ==
  {NoConfig,
   [AccountID |-> <<"s", "a">>, APIToken |-> <<"s", "t">>,
    DefaultOutput |-> STable, DefaultSignedDuration |-> <<"3", "0", "m">>],
   [AccountID |-> <<"s", "a">>, APIToken |-> <<>>,
    DefaultOutput |-> <<>>, DefaultSignedDuration |-> <<>>]}

\* v.SetDefault
DefaultOf(key) ==
  CASE key = "DefaultOutput" -> STable
    [] key = "DefaultSignedDuration" -> S1h
    [] OTHER -> <<>>

\* viper's getEnv: a variable counts when it is set to a non-empty string
EnvApplies(e) == e.set /\ e.val # <<>>

\* v.ReadInConfig() has read the file
FileWasRead(f) == f.state = "present"

\* the config file wins over the environment
ViperGetStringFileFirst(key, e, f) ==
  IF FileWasRead(f) /\ key \in f.keys THEN f.vals[key]
  ELSE IF key \in BoundKeys /\ EnvApplies(e[key]) THEN e[key].val
  ELSE DefaultOf(key)

\* v.GetString(key): the bound environment variable, else the value of the
\* file, else the default, else ""
ViperGetString(key, e, f) ==
  IF key \in BoundKeys /\ EnvApplies(e[key]) THEN e[key].val
  ELSE IF FileWasRead(f) /\ key \in f.keys THEN f.vals[key]
  ELSE DefaultOf(key)

\* Load(): an error of ReadInConfig other than "not found" and "permission
\* denied" is returned; otherwise the Config is built from the four keys
LoadError(f) ==
  IF f.state = "malformed"
    THEN <<"failed to read config file", "While parsing config">>
    ELSE NoError
LoadConfig(e, f) ==
  IF LoadError(f) # NoError THEN NoConfig
  ELSE [AccountID |-> ViperGetString("AccountID", e, f),
        APIToken |-> ViperGetString("APIToken", e, f),
        DefaultOutput |-> ViperGetString("DefaultOutput", e, f),
        DefaultSignedDuration |-> ViperGetString("DefaultSignedDuration", e, f)]

\* a process starts with some environment and some config file
InitLoad ==
  /\ UploadIdle
  /\ WrapIdle
  /\ ConfigIdle
  /\ CmdIdle
  /\ PollIdle
  /\ env \in Environments
  /\ cfgFile \in ConfigFiles
  /\ saved = [done |-> FALSE, cfg |-> NoConfig]
  /\ loaded = NoConfig
  /\ loadDone = FALSE
  /\ loadErr = NoError

\* Save(cfg): nil is refused; the directory or the file may fail to be
\* written; otherwise the file has the four keys with the values of cfg
SaveCall ==
  /\ ~saved.done
  /\ ~loadDone
  /\ \E isNil \in BOOLEAN, c \in SaveConfigs, stored \in BOOLEAN :
       IF isNil \/ ~stored \/ cfgFile.state = "denied"
         THEN UNCHANGED <<cfgFile, saved>>
         ELSE /\ cfgFile' = [state |-> "present", keys |-> ConfigKeys, vals |-> c]
              /\ saved' = [done |-> TRUE, cfg |-> c]
  /\ UNCHANGED <<env, loaded, loadDone, loadErr, uploadvars, wrapvars, cfgvars,
                 cmdvars, pollvars>>

LoadCall ==
  /\ ~loadDone
  /\ loadErr' = LoadError(cfgFile)
  /\ loaded' = LoadConfig(env, cfgFile)
  /\ loadDone' = TRUE
  /\ UNCHANGED <<env, cfgFile, saved, uploadvars, wrapvars, cfgvars, cmdvars,
                 pollvars>>

NextLoad == SaveCall \/ LoadCall

SpecLoad == InitLoad /\ [][NextLoad]_vars

\* ------------------------------------------------------- the upload command
\* cmd/upload.go: progressCh := make(chan api.UploadProgress, 10), the
\* consumer goroutine is started, and UploadFile is called with the channel
InitCmd ==
  /\ Init
  /\ ~chNil
  /\ chCap = MaxChanCap

\* close(progressCh), the statement after the call of UploadFile
CloseProgressCh ==
  /\ ~panicked
  /\ pc = "done"
  /\ ~chClosed
  /\ chClosed' = TRUE
  /\ UNCHANGED <<finishCalled, consumerDone, uploadvars, wrapvars, cfgvars, loadvars,
                 pollvars>>

\* progressTracker.Finish(), the statement after close(progressCh)
ProgressFinish ==
  /\ ~panicked
  /\ chClosed
  /\ ~finishCalled
  /\ finishCalled' = TRUE
  /\ UNCHANGED <<chClosed, consumerDone, uploadvars, wrapvars, cfgvars, loadvars,
                 pollvars>>

\* for progress := range progressCh ends: the channel is closed and empty
ConsumerReturn ==
  /\ ~panicked
  /\ chClosed
  /\ progressCh = <<>>
  /\ ~consumerDone
  /\ consumerDone' = TRUE
  /\ UNCHANGED <<chClosed, finishCalled, uploadvars, wrapvars, cfgvars, loadvars,
                 pollvars>>

NextCmd == Next \/ CloseProgressCh \/ ProgressFinish \/ ConsumerReturn

SpecCmd == InitCmd /\ [][NextCmd]_vars

\* ---------------------------------------------------------- pollVideoStatus
\* const maxAttempts = 60
maxAttempts == 60

\* video.Status as the service reports it
VideoStatuses == {"queued", "inprogress", "ready", "error"}

\* what a call of GetVideo gives pollVideoStatus: an error, or a Video with
\* its ReadyToStream and Status
PollAnswers ==
  {[err |-> TRUE, ready |-> FALSE, status |-> ""]}
    \cup [err : {FALSE}, ready : BOOLEAN, status : VideoStatuses]

\* Status == "error" looked at before ReadyToStream
PollVerdictStatusFirst(a) ==
  IF a.err THEN "err"
  ELSE IF a.status = "error" THEN "err"
  ELSE IF a.ready THEN "nil"
  ELSE "continue"

\* the body of the loop after GetVideo: if err != nil { return err }; if
\* video.ReadyToStream { return nil }; if video.Status == "error" { return
\* fmt.Errorf("video processing failed: ...") }; otherwise the next round
PollVerdict(a) ==
  IF a.err THEN "err"
  ELSE IF a.ready THEN "nil"
  ELSE IF a.status = "error" THEN "err"
  ELSE "continue"

\* the error of a round that returns one
PollError(a) ==
  IF a.err THEN Wrap("failed to get video", <<ErrNotFound>>)
  ELSE <<"video processing failed">>

InitPoll ==
  /\ UploadIdle
  /\ WrapIdle
  /\ ConfigIdle
  /\ LoadIdle
  /\ CmdIdle
  /\ pollI = 0
  /\ pollCalls = 0
  /\ pollLast = NoPoll
  /\ pollRet = "running"
  /\ pollErr = NoError

\* one round of for i := 0; i < maxAttempts; i++ { ... }: time.Sleep,
\* GetVideo and the checks of its answer
PollRound ==
  /\ pollRet = "running"
  /\ pollI < maxAttempts
  /\ \E a \in PollAnswers :
       /\ pollCalls' = pollCalls + 1
       /\ pollLast' = a
       /\ IF PollVerdict(a) = "continue"
            THEN /\ pollI' = pollI + 1
                 /\ UNCHANGED <<pollRet, pollErr>>
            ELSE /\ pollRet' = PollVerdict(a)
                 /\ pollErr' = IF PollVerdict(a) = "err" THEN PollError(a) ELSE NoError
                 /\ UNCHANGED pollI
  /\ UNCHANGED <<uploadvars, wrapvars, cfgvars, loadvars, cmdvars>>

\* the loop ends with i == maxAttempts: "still processing" is printed and
\* nil returned
PollGiveUp ==
  /\ pollRet = "running"
  /\ pollI >= maxAttempts
  /\ pollRet' = "nil"
  /\ UNCHANGED <<pollI, pollCalls, pollLast, pollErr, uploadvars, wrapvars,
                 cfgvars, loadvars, cmdvars>>

NextPoll == PollRound \/ PollGiveUp

\* the command runs the loop on its main goroutine: time.Sleep returns after
\* the poll interval and GetVideo returns, so a round that can be taken is
\* taken
SpecPoll == InitPoll /\ [][NextPoll]_vars /\ WF_vars(NextPoll)

\* =================================================================== claims
\* the PATCH requests sent so far, in order
Patches == SelectSeq(reqs, LAMBDA r : r.kind = "Patch")

CeilDiv(a, b) == (a + b - 1) \div b

\* tusUploadDirect has returned the identifier without error
TusSucceeded == strategy = "tus" /\ uploaderRet = "ok"

\* the length the claim gives to the i-th chunk of a file of size N
ClaimedLength(N, i) ==
  IF i < CeilDiv(N, 52428800) THEN 52428800
  ELSE IF N % 52428800 = 0 THEN 52428800 ELSE N % 52428800

\* C1: the PATCH requests of the resumable path are, in order, the chunks
\* of the file: the i-th has Upload-Offset (i-1)*C and length C, except the
\* last, whose length is N mod C (C when N is a multiple of C); none is
\* empty, there are never more than ceil(N/C), and when the uploader returns
\* without error (every PATCH was answered 204) there are exactly ceil(N/C).
C1_ChunkSequence ==
  /\ \A i \in 1..Len(Patches) :
       /\ Patches[i].offset = (i - 1) * 52428800
       /\ Patches[i].bodyLen = ClaimedLength(fileSize, i)
       /\ Patches[i].bodyLen > 0
  /\ Len(Patches) <= CeilDiv(fileSize, 52428800)
  /\ TusSucceeded => /\ Len(Patches) = CeilDiv(fileSize, 52428800)
                      /\ patchAcks = Len(Patches)

\* a 220 MiB file went through the resumable path in 5 chunks, the last of
\* 20 MiB
C1_Witness ==
  /\ TusSucceeded
  /\ fileSize = 220 * MiB
  /\ Len(Patches) = 5
  /\ Patches[5].bodyLen = 20 * MiB
  /\ Patches[5].offset = 200 * MiB

\* the answer to the i-th request, once it is there
Answered(i) == i <= Len(resps)

\* the bytes carried by the first k PATCH requests
RECURSIVE PatchBytes(_)
PatchBytes(k) == IF k = 0 THEN 0 ELSE PatchBytes(k - 1) + Patches[k].bodyLen

\* the i-th PATCH is the (i+1)-th request of the call: it follows the
\* session-open POST and the PATCH requests before it
PatchHeaders ==
  \A i \in 1..Len(Patches) :
    /\ Patches[i] = reqs[i + 1]
    /\ location # <<>>
    /\ Patches[i].url = location
    /\ \A j \in 1..(i - 1) : Answered(j + 1) /\ resps[j + 1] = 204
    /\ Patches[i].offset = PatchBytes(i - 1)
    /\ Patches[i].length = Patches[i].bodyLen

SessionFixed ==
  location # <<>> => location' = location /\ videoID' = videoID

\* C2: every PATCH goes to the URL of the Location header of the
\* session-open answer, its Upload-Offset is the sum of the lengths of the
\* chunks sent before it, all of which were answered 204, and its
\* Content-Length is the length of its body; once the session is open its
\* URL and the identifier never change.
C2_PatchHeaders == []PatchHeaders /\ [][SessionFixed]_vars

\* the third PATCH of a session is in flight
C2_Witness ==
  /\ pc = "tus_patch_wait"
  /\ Len(Patches) = 3
  /\ Patches[3].offset = 100 * MiB
  /\ Patches[3].url = <<"/", "v">>

\* C3: a PATCH that is answered with another status than 204, or not at
\* all, is the last request of the call: UploadFile has returned an error,
\* offset still is the Upload-Offset of the failed chunk, and the progress
\* sends are those of the chunks acknowledged before it.
C3_FailedChunkStops ==
  \A i \in 1..Len(resps) :
    (reqs[i].kind = "Patch" /\ resps[i] # 204) =>
      /\ i = Len(reqs)
      /\ pc = "done"
      /\ ~result.ok
      /\ result.err # NoError
      /\ offset = reqs[i].offset
      /\ patchAcks = i - 2
      /\ emitCount = (IF chNil THEN 0 ELSE i - 2)
      /\ emitCount > 0 => lastEmit.sent = reqs[i].offset

\* the third chunk was answered 500 after two progress sends
C3_Witness ==
  /\ Len(resps) = 4
  /\ reqs[4].kind = "Patch"
  /\ resps[4] = 500
  /\ emitCount = 2
  /\ pc = "done"

UploaderSucceeded == uploaderRet = "ok"

\* a progress send never reports less than the send before it
EmitMonotone == emitCount' > emitCount => lastEmit'.sent >= lastEmit.sent

\* the updates in the channel are in non-decreasing order, none is beyond
\* the last one sent, and all carry the file size as total
ChannelOrdered ==
  /\ \A i \in 1..Len(progressCh) :
       /\ progressCh[i].sent <= lastEmit.sent
       /\ progressCh[i].sent >= 0
       /\ progressCh[i].total = fileSize
       /\ \A j \in 1..(i - 1) : progressCh[j].sent <= progressCh[i].sent
  /\ emitCount > 0 => lastEmit.total = fileSize

\* after a successful upload the last progress send, if it was accepted,
\* reported the whole file
FinalUpdateComplete ==
  (UploaderSucceeded /\ emitCount > 0 /\ ~lastEmit.dropped) =>
     /\ lastEmit.sent = fileSize
     /\ lastEmit.total = fileSize

\* C5: on both paths the progress sends of one upload carry non-decreasing
\* bytesSent (so every subsequence of accepted updates does, and the channel
\* holds them in order), and once the uploader has succeeded the last send,
\* if it was not dropped, has bytesSent = bytesTotal = file size.
C5_ProgressMonotone ==
  [][EmitMonotone]_vars /\ []ChannelOrdered /\ []FinalUpdateComplete

\* a 220 MiB upload has succeeded; an earlier update was dropped, the last
\* one was accepted and reports the whole file
C5_Witness ==
  /\ TusSucceeded
  /\ fileSize = 220 * MiB
  /\ emitCount = 5
  /\ ~lastEmit.dropped
  /\ lastEmit.sent = 220 * MiB
  /\ Len(progressCh) + received < emitCount

\* the uploader is never made to wait at a progress send
NeverBlocks ==
  /\ pc = "tus_progress" => ENABLED TusProgress
  /\ (wpc = "w_write" /\ pipePending = "none") => ENABLED WriterWritten

\* a progress send, accepted or dropped, leaves the transfer where it is:
\* the loop goes on to the next read
SendFrame ==
  emitCount' # emitCount =>
    /\ UNCHANGED <<reqs, resps, result, offset, filePos, fileClosed>>
    /\ strategy = "tus" => pc = "tus_progress" /\ pc' = "tus_read"
    /\ strategy = "multipart" => pc' = pc /\ wpc = "w_write" /\ wpc' = "w_read"

\* a receive of the consumer changes nothing of the transfer
ReceiveFrame ==
  (received' # received /\ emitCount' = emitCount) =>
    UNCHANGED <<pc, wpc, reqs, resps, result, offset, filePos, written, fileClosed>>

\* C6: the progress send is always possible at once, whatever the channel
\* holds and whatever the consumer does; an update that is not accepted is
\* dropped, and neither the send nor a receive changes the requests, the
\* position or the result of the transfer.
C6_ProgressNeverBlocks ==
  []NeverBlocks /\ [][SendFrame]_vars /\ [][ReceiveFrame]_vars

\* an upload through a channel whose consumer never received has succeeded,
\* with updates dropped
C6_Witness ==
  /\ result.ok
  /\ ~chNil
  /\ received = 0
  /\ emitCount > chCap
  /\ lastEmit.dropped

\* id is the part of loc after its last "/" (all of loc when it has none)
IsLastSegment(id, loc) ==
  \E k \in 0..Len(loc) :
    /\ id = SubSeq(loc, k + 1, Len(loc))
    /\ \A i \in 1..Len(id) : id[i] # "/"
    /\ k = 0 \/ loc[k] = "/"

\* C7: Unopened -> Opened -> Complete.  A PATCH is only ever sent after the
\* session-open POST, the first request, was answered 201; a session-open
\* answered otherwise ends the call with an error, the POST being its only
\* request; and the uploader returns without error only when the file is
\* exhausted and wholly acknowledged, with the last segment of the
\* session-open Location as identifier.
C7_SessionStateMachine ==
  /\ Len(Patches) > 0 =>
       reqs[1].kind = "TusOpen" /\ Answered(1) /\ resps[1] = 201
  /\ (strategy = "tus" /\ Answered(1) /\ resps[1] # 201) =>
       /\ pc = "done"
       /\ ~result.ok
       /\ result.err # NoError
       /\ Len(reqs) = 1
  /\ TusSucceeded =>
       /\ resps[1] = 201
       /\ filePos = fileSize
       /\ offset = fileSize
       /\ PatchBytes(Len(Patches)) = fileSize
       /\ patchAcks = Len(Patches)
       /\ IsLastSegment(videoID, location)
       /\ getCalls > 0 => getArg = videoID
       /\ result.ok => result.uid = videoID

\* the uploader has returned the identifier "v" of the session "/v" after
\* six chunks
C7_Witness ==
  /\ TusSucceeded
  /\ result.ok
  /\ location = <<"/", "v">>
  /\ result.uid = <<"v">>
  /\ Len(Patches) = 6

\* a Location that names a session and its resource
UsableLocation(loc) == loc # <<>> /\ ~IsLastSegment(<<>>, loc)

\* C8 (the claim as stated): a session-open answer 201 without a usable
\* Location ends the call at once with an error that is neither
\* InvalidInput nor a transport failure, and no chunk is sent.
C8_UnusableLocationFails ==
  (strategy = "tus" /\ Answered(1) /\ resps[1] = 201 /\ ~UsableLocation(location)) =>
     /\ pc = "done"
     /\ Len(Patches) = 0
     /\ ~result.ok
     /\ result.err # NoError
     /\ ~ErrorsIs(result.err, ErrInvalidInput)
     /\ ~ErrorsIs(result.err, NetError[1])

\* every request but the final fetch has got the answer its path expects
SuccessStatus(kind) ==
  CASE kind = "TusOpen" -> {201}
    [] kind = "Patch" -> {204}
    [] kind = "DirectURL" -> {200}
    [] kind = "MultipartPost" -> {200, 201}
    [] OTHER -> {200}

UploadRequestFailed ==
  \E i \in 1..Len(resps) :
    reqs[i].kind # "GetVideo" /\ resps[i] \notin SuccessStatus(reqs[i].kind)

\* C9: GetVideo is called at most once, never before the uploader has
\* returned without error and always once it has; its request is the last
\* of the call and follows the answers to all upload requests; UploadFile
\* returns a Video only when that request was answered with success, and an
\* error without a Video when GetVideo failed.
C9_FinalFetch ==
  /\ getCalls <= 1
  /\ uploaderRet # "ok" => getCalls = 0
  /\ UploadRequestFailed => getCalls = 0
  /\ (pc = "done" /\ uploaderRet = "ok") => getCalls = 1
  /\ \A i \in 1..Len(reqs) :
       reqs[i].kind = "GetVideo" =>
         /\ i = Len(reqs)
         /\ getCalls = 1
         /\ Len(resps) >= i - 1
  /\ result.ok =>
       /\ uploaderRet = "ok"
       /\ getCalls = 1
       /\ Last(reqs).kind = "GetVideo"
       /\ Len(resps) = Len(reqs)
       /\ Last(resps) = 200
       /\ result.uid = getArg
  /\ (pc = "done" /\ getCalls = 1
        /\ (Last(reqs).kind # "GetVideo" \/ Last(resps) # 200)) =>
       /\ ~result.ok
       /\ result.uid = <<>>
       /\ result.err # NoError

\* the bytes went up on the single-shot path, GetVideo was answered 404 and
\* UploadFile has returned an error
C9_Witness ==
  /\ pc = "done"
  /\ strategy = "multipart"
  /\ uploaderRet = "ok"
  /\ getCalls = 1
  /\ Last(reqs).kind = "GetVideo"
  /\ Last(resps) = 404
  /\ ErrorsIs(result.err, ErrNotFound)

TusRequest(r) == r.kind \in {"TusOpen", "Patch"}
SingleShotRequest(r) == r.kind \in {"DirectURL", "MultipartPost"}

\* C10: the requests of one call are of one strategy only, the one chosen,
\* and the identifier GetVideo is called with is the last segment of the
\* session-open Location when the resumable path ran and the uid of the
\* direct-upload-URL answer when the single-shot path ran.
C10_OneStrategy ==
  /\ ~(\E i, j \in 1..Len(reqs) : TusRequest(reqs[i]) /\ SingleShotRequest(reqs[j]))
  /\ strategy = "tus" => TusRequest(reqs[1])
  /\ strategy = "multipart" => SingleShotRequest(reqs[1])
  /\ strategy = "none" => reqs = <<>>
  /\ getCalls > 0 =>
       IF TusRequest(reqs[1])
         THEN IsLastSegment(getArg, location)
         ELSE getArg = directUID
  /\ \A i \in 1..Len(reqs) : reqs[i].kind = "GetVideo" => reqs[i].url = getArg

\* after a single-shot upload GetVideo is asked for the uid "u" of the
\* direct-upload-URL answer
C10_Witness ==
  /\ strategy = "multipart"
  /\ Len(reqs) = 3
  /\ reqs[2].kind = "MultipartPost"
  /\ reqs[3].kind = "GetVideo"
  /\ reqs[3].url = <<"u">>
  /\ directUID = <<"u">>

\* the i-th request is the multipart POST and client.Do has returned for it
PostAnswered(i) == Answered(i) /\ reqs[i].kind = "MultipartPost"

\* UploadFile has returned a Video and no error, or an error and no Video
WholeResult ==
  result.done =>
    \/ result.ok /\ result.uid # <<>> /\ result.err = NoError
    \/ ~result.ok /\ result.uid = <<>> /\ result.err # NoError

\* C11: in the single-shot path the uploader returns without error exactly
\* when its POST was answered 200 or 201; with any other status, or with a
\* network error, it returns an error, and UploadFile has then returned that
\* failure with no Video and without calling GetVideo.  Whatever UploadFile
\* returns is a Video or an error, never both and never neither.
C11_MultipartOutcome ==
  /\ strategy = "multipart" =>
       /\ uploaderRet = "ok" <=>
            \E i \in 1..Len(resps) : PostAnswered(i) /\ resps[i] \in {200, 201}
       /\ \A i \in 1..Len(resps) :
            PostAnswered(i) /\ resps[i] \notin {200, 201} =>
              /\ uploaderRet = "err"
              /\ pc = "done"
              /\ result.done /\ ~result.ok /\ result.uid = <<>>
              /\ result.err # NoError
              /\ getCalls = 0
  /\ WholeResult

\* a two-buffer file was posted, the POST was answered 201 and UploadFile
\* returned the Video
C11_Witness ==
  /\ strategy = "multipart"
  /\ fileSize = 2 * bufferSize
  /\ \E i \in 1..Len(resps) : PostAnswered(i) /\ resps[i] = 201
  /\ result.done /\ result.ok

\* the multipart POST requests sent so far
Posts == SelectSeq(reqs, LAMBDA r : r.kind = "MultipartPost")

\* multipartUpload has returned, with or without error
MultipartReturned == strategy = "multipart" /\ uploaderRet # "none"

\* the statement of C12 as the specification gives it: every invocation of
\* the single-shot uploader that has returned has issued exactly one request
C12_ExactlyOnePost == MultipartReturned => Len(Posts) = 1

\* C12: the single-shot uploader issues at most one outbound request, a POST
\* to the upload URL whose body is the whole file as one stream; it issues
\* exactly one when it has returned and the request could be built from the
\* upload URL, and none when the upload URL does not parse, in which case it
\* returns an error.  The requests of the single-shot path are therefore the
\* direct-upload-URL request, at most one POST and at most one GetVideo, and
\* when the POST is answered 200 or 201 the transport has read all the bytes
\* of the file, however many buffers that took.
C12_AtMostOnePost ==
  strategy = "multipart" =>
    /\ Len(Posts) <= 1
    /\ \A i \in 1..Len(reqs) :
         /\ i = 1 <=> reqs[i].kind = "DirectURL"
         /\ reqs[i].kind = "MultipartPost" =>
              /\ i = 2
              /\ reqs[i].url = uploadURL
              /\ reqs[i].bodyFrom = 0 /\ reqs[i].bodyLen = fileSize
              /\ Answered(i) /\ resps[i] \in {200, 201} =>
                   bodyRead = fileSize /\ filePos = fileSize
         /\ reqs[i].kind = "GetVideo" => i = 3
    /\ MultipartReturned =>
         IF uploadURL = <<"%">>
           THEN Len(Posts) = 0 /\ uploaderRet = "err"
           ELSE Len(Posts) = 1

\* a file of three buffers and one byte was read in four reads and sent in
\* the one POST, which was answered 200
C12_Witness ==
  /\ MultipartReturned
  /\ fileSize = 3 * bufferSize + 1
  /\ Len(Posts) = 1
  /\ bodyRead = fileSize
  /\ resps[2] = 200

\* the number of requests of a kind sent so far
CountKind(kind) == Len(SelectSeq(reqs, LAMBDA r : r.kind = kind))

C14_ChunkRetried ==
  \A i \in 1..Len(resps) :
    reqs[i].kind = "Patch" /\ resps[i] = NoAnswer /\ pc = "done" =>
      \E j \in (i + 1)..Len(reqs) :
        reqs[j].kind = "Patch" /\ reqs[j].offset = reqs[i].offset

\* the chosen uploader has returned an error
UploaderFailed == uploaderRet = "err"

\* the text UploadFile puts before the error of the uploader
UploadFilePrefix == IF strategy = "tus" THEN "TUS upload failed" ELSE "upload failed"

\* the statement of C15 as the specification gives it: the error UploadFile
\* returns is the error value the uploader returned
C15_ErrorUnchanged == UploaderFailed => result.err = uploaderErr

\* C15: when the chosen uploader fails, UploadFile returns an error that
\* wraps the uploader's error: it is a new error whose text starts with
\* "TUS upload failed" (resumable) or "upload failed" (single-shot), whose
\* Unwrap is the uploader's error, and errors.Is finds in it everything that
\* is in the uploader's error.  It is never the uploader's error itself.
C15_ErrorWrapped ==
  UploaderFailed =>
    /\ result.done /\ ~result.ok
    /\ uploaderErr # NoError
    /\ result.err # uploaderErr
    /\ Head(result.err) = UploadFilePrefix
    /\ Tail(result.err) = uploaderErr
    /\ \A i \in 1..Len(uploaderErr) : ErrorsIs(result.err, uploaderErr[i])

\* a chunk failed in transport: the uploader returned "chunk upload failed"
\* around the network error and UploadFile returned it inside "TUS upload
\* failed"
C15_Witness ==
  /\ UploaderFailed
  /\ uploaderErr = <<"chunk upload failed">> \o NetError
  /\ result.err = <<"TUS upload failed", "chunk upload failed">> \o NetError

\* the input the claim calls invalid: no path, or an existing empty file
InvalidInput == filePath = "" \/ (fileOpens /\ fileSize = 0)

\* C16: once UploadFile has taken its first step on an empty file path or
\* on a zero-length file, it has returned an error that is ErrInvalidInput
\* and no request at all has been sent.
C16_InvalidInputRejected ==
  InvalidInput /\ pc # "start" =>
    /\ reqs = <<>>
    /\ result.done /\ ~result.ok
    /\ ErrorsIs(result.err, ErrInvalidInput)

\* the uploader failed because the caller's context was cancelled or its
\* deadline passed while a request was in flight
ContextEnded ==
  /\ uploaderRet = "err"
  /\ ErrorsIs(uploaderErr, CtxCanceled[1]) \/ ErrorsIs(uploaderErr, CtxDeadline[1])

\* the i-th request is the one the end of the context interrupted
Interrupted(i) == ContextEnded /\ Answered(i) /\ resps[i] = NoAnswer

\* what the end of the context leaves of the call: the interrupted request
\* is the last one, UploadFile has returned the failure, and GetVideo was
\* never called
CancelledCallEnds(i) ==
  /\ i = Len(reqs)
  /\ pc = "done"
  /\ result.done /\ ~result.ok /\ result.err # NoError
  /\ getCalls = 0

InFlight == Len(reqs) - Len(resps)

\* a step that reads bytes from the file
ReadsFile == filePos' # filePos

TusReadInTurn ==
  /\ InFlight = 0
  /\ \A i \in 2..Len(resps) : resps[i] = 204
  /\ offset = filePos
  /\ PatchBytes(Len(Patches)) = filePos

\* a read of the single-shot path: the POST has been handed to client.Do,
\* and every buffer read before has been written into its body and taken
\* by the transport
WriterReadInTurn ==
  /\ Len(Posts) = 1
  /\ pipePending = "none"
  /\ written = filePos
  /\ bodyRead = filePos

UploadRequests == SelectSeq(reqs, LAMBDA r : r.kind # "GetVideo")

\* each option the caller gave is carried by some request of the upload
OptionsCarried ==
  /\ optsName # "" =>
       \E i \in 1..Len(UploadRequests) : UploadRequests[i].name = optsName
  /\ optsMeta # NoMetadata =>
       \E i \in 1..Len(UploadRequests) : UploadRequests[i].meta = optsMeta
  /\ optsSigned =>
       \E i \in 1..Len(UploadRequests) : UploadRequests[i].signed

\* C19: whichever strategy ran, once the uploader has returned without
\* error the display name, the metadata and the require-signed-URLs flag the
\* caller gave have each gone out in a request of the upload.
C19_OptionsInRequests == uploaderRet = "ok" => OptionsCarried

\* the sentinels errors.Is finds in an error
SentinelsIn(err) == {s \in Sentinels : ErrorsIs(err, s)}

\* the sentinel the claim gives to a status, as a set: empty for the
\* statuses it gives none
ClaimedSentinels(status) ==
  CASE status = 404 -> {ErrNotFound}
    [] status = 401 -> {ErrUnauthorized}
    [] status = 403 -> {ErrForbidden}
    [] status = 429 -> {ErrRateLimit}
    [] status = 400 -> {ErrInvalidInput}
    [] OTHER -> {}

\* the API errors in the chain of the argument, outermost first
APIErrorsIn(err) == SelectSeq(err, IsAPIError)

\* C20: WrapError maps its argument by kind: nil gives nil; an error with
\* no Cloudflare API error in it is returned as it is; an API error with
\* status 404, 401, 403, 429 or 400 gives an error in which errors.Is finds
\* ErrNotFound, ErrUnauthorized, ErrForbidden, ErrRateLimit or
\* ErrInvalidInput respectively and no other sentinel; an API error with any
\* other status gives an error in which errors.Is finds none of the five.
C20_WrapErrorByKind ==
  wrapDone =>
    /\ wrapArg = NoError => wrapRet = NoError
    /\ wrapArg # NoError /\ APIErrorsIn(wrapArg) = <<>> => wrapRet = wrapArg
    /\ \A st \in APIStatuses :
         APIErrorsIn(wrapArg) = <<APIError(st)>> =>
           /\ wrapRet # NoError
           /\ SentinelsIn(wrapRet) = ClaimedSentinels(st)

\* WrapError was given a 403 API error inside one wrapper and returned an
\* error that is ErrForbidden
C20_Witness ==
  /\ wrapDone
  /\ wrapArg = <<"request failed", APIError(403)>>
  /\ SentinelsIn(wrapRet) = {ErrForbidden}

\* a string that is empty or has only spaces
IsBlank(s) == \A i \in 1..Len(s) : s[i] = " "

\* the duration strings tried that time.ParseDuration accepts
ListedDurations ==
  {S1h, <<"3", "0", "m">>, <<"1", "h", "3", "0", "m">>, <<"0">>,
   <<"1", ".", "5", "h">>, <<"-", "1", "h">>, <<"5", "0", "0", "m", "s">>}

\* Validate has returned nil
ValidateOK == validateDone /\ validateErr = NoError

\* the statement of C21 as the specification gives it: Validate fails
\* exactly when the config is nil, a credential is blank, default_output is
\* given and is not one of the three names, or default_signed_duration is
\* given and is no duration string
C21_ValidateLiteral ==
  validateDone =>
    /\ validateErr # NoError <=>
         \/ cfgNil
         \/ IsBlank(cfgGiven.AccountID)
         \/ IsBlank(cfgGiven.APIToken)
         \/ /\ cfgGiven.DefaultOutput # <<>>
            /\ cfgGiven.DefaultOutput \notin {STable, SJson, SYaml}
         \/ /\ cfgGiven.DefaultSignedDuration # <<>>
            /\ cfgGiven.DefaultSignedDuration \notin ListedDurations
    /\ ValidateOK =>
         /\ cfgGiven.DefaultOutput = <<>> => cfg.DefaultOutput = STable
         /\ cfgGiven.DefaultSignedDuration = <<>> => cfg.DefaultSignedDuration = S1h

\* the default_output values tried that Validate accepts: blank, or one of
\* the three names in any letter case and with spaces around it
AcceptedOutputs ==
  {<<>>, SBlank, STable, SJson, SYaml, SJsonUpper, SJsonPadded}

\* C21: Validate returns an error exactly when the config is nil, when
\* account_id or api_token is blank, when default_output - trimmed and in
\* lower case - is neither empty nor one of table, json, yaml, or when
\* default_signed_duration is not blank and is not a duration string as it
\* stands.  When it returns nil the credentials are as given, a blank
\* default_output has been set to "table" and a blank
\* default_signed_duration to "1h", and any other value is left as given.
C21_ValidateOutcome ==
  validateDone =>
    /\ validateErr # NoError <=>
         \/ cfgNil
         \/ IsBlank(cfgGiven.AccountID)
         \/ IsBlank(cfgGiven.APIToken)
         \/ cfgGiven.DefaultOutput \notin AcceptedOutputs
         \/ /\ ~IsBlank(cfgGiven.DefaultSignedDuration)
            /\ cfgGiven.DefaultSignedDuration \notin ListedDurations
    /\ ValidateOK =>
         /\ cfg.AccountID = cfgGiven.AccountID
         /\ cfg.APIToken = cfgGiven.APIToken
         /\ cfg.DefaultOutput =
              IF IsBlank(cfgGiven.DefaultOutput) THEN STable
              ELSE cfgGiven.DefaultOutput
         /\ cfg.DefaultSignedDuration =
              IF IsBlank(cfgGiven.DefaultSignedDuration) THEN S1h
              ELSE cfgGiven.DefaultSignedDuration

\* Validate was given "JSON" as default_output and no duration: it returned
\* nil, left the output as it was and set the duration to "1h"
C21_Witness ==
  /\ ValidateOK
  /\ cfgGiven.DefaultOutput = SJsonUpper
  /\ cfgGiven.DefaultSignedDuration = <<>>
  /\ cfg.DefaultOutput = SJsonUpper
  /\ cfg.DefaultSignedDuration = S1h

\* the value the config file gives for a key, if it gives one
FileHas(key) == cfgFile.state = "present" /\ key \in cfgFile.keys

\* the value a key gets when the environment variable counts as soon as it
\* is set, and when it counts only if its value is not empty
ByPrecedence(key, envCounts) ==
  IF key \in BoundKeys /\ envCounts THEN env[key].val
  ELSE IF FileHas(key) THEN cfgFile.vals[key]
  ELSE IF key = "DefaultOutput" THEN STable
  ELSE IF key = "DefaultSignedDuration" THEN S1h
  ELSE <<>>

LoadSucceeded == loadDone /\ loadErr = NoError

\* C22 as stated: a Load that succeeds returns, for each of account_id,
\* api_token and default_output, the value of the environment variable
\* whenever that variable is set, else the file's value, else the default.
C22_EnvWhenSet ==
  LoadSucceeded =>
    \A key \in BoundKeys : loaded[key] = ByPrecedence(key, env[key].set)

\* C22: a Load that succeeds returns, for each of account_id, api_token and
\* default_output, the value of the environment variable when that variable
\* is set to a non-empty string, else the file's value, else the default
\* ("" for the credentials, "table"); the signed duration comes from the
\* file, else "1h". After a Save, with no environment variables set, Load
\* returns the saved Config.
C22_Precedence ==
  LoadSucceeded =>
    /\ \A key \in ConfigKeys :
         loaded[key] =
           ByPrecedence(key, key \in BoundKeys /\ env[key].set /\ env[key].val # <<>>)
    /\ (saved.done /\ \A key \in BoundKeys : ~env[key].set) => loaded = saved.cfg

\* a Load after a Save, where one variable overrides the saved value and
\* another one is not set
C22_Witness ==
  /\ LoadSucceeded
  /\ saved.done
  /\ env.AccountID.set /\ env.AccountID.val # <<>>
  /\ loaded.AccountID = env.AccountID.val
  /\ loaded.AccountID # saved.cfg.AccountID
  /\ ~env.APIToken.set
  /\ loaded.APIToken = saved.cfg.APIToken

\* C23 (the claim as stated): once UploadFile has returned nothing is sent
\* on the progress channel, so the upload command, which closes the channel
\* right after the call, never makes a send hit the closed channel.
C23_NoSendOnClosedChannel == ~panicked

\* C25 (the claim as stated): every update that was accepted into the
\* progress channel has been passed to ProgressTracker.Update before
\* ProgressTracker.Finish is called, so once Finish has been called no
\* update waits in the channel for an Update still to come.
C25_UpdatesBeforeFinish == finishCalled => progressCh = <<>>

\* the step sends a PATCH
SendsPatch == Len(reqs') = Len(reqs) + 1 /\ reqs'[Len(reqs')].kind = "Patch"

\* C24: client and server agree on the offset of a resumable session: every
\* PATCH is sent with an Upload-Offset equal to the bytes the service has
\* committed at that moment (after a lost answer or a failed chunk no PATCH
\* follows), and when the resumable uploader returns success the service
\* has committed exactly the file.
C24_OffsetAgreement ==
  /\ [][SendsPatch => reqs'[Len(reqs')].offset = serverCommitted]_vars
  /\ [](TusSucceeded => serverCommitted = fileSize)

\* the answer to the second PATCH was lost after the service had committed
\* the chunk: the service is ahead of the client, and the client has stopped
C24_Witness ==
  /\ strategy = "tus"
  /\ pc = "done"
  /\ Len(Patches) = 2
  /\ resps[Len(resps)] = NoAnswer
  /\ offset = chunkSize
  /\ serverCommitted = 2 * chunkSize

\* the writer goroutine calls file.Read in this step
WriterCallsRead == wpc = "w_read" /\ wpc' # "w_read"

\* C26 (the claim as stated): the file handle is used only while the call
\* of UploadFile is running: no read of the file is attempted after
\* UploadFile has returned and closed the handle, not by the background
\* writer of the single-shot path either.
C26_NoReadAfterClose == [][WriterCallsRead => ~fileClosed]_vars

\* the writer goroutine runs: it was started and has not returned
WriterRunning == wpc \notin {"w_none", "w_exit"}

\* a step of the writer goroutine, or of the transport that reads or closes
\* the pipe the writer writes into
WriterOrPipeStep ==
  \/ WriterCreateFormFile
  \/ WriterHeaderDone
  \/ WriterRead
  \/ WriterWritten
  \/ WriterTrailerDone
  \/ TransportRead
  \/ TransportCloseBody

\* C27 (the claim as stated): the writer goroutine always terminates; in
\* particular it never stays blocked on the pipe after multipartUpload has
\* returned: while it runs, it or the reader of the pipe can take a step.
C27_WriterNeverStuck ==
  (MultipartReturned /\ WriterRunning) => ENABLED WriterOrPipeStep

\* C28 (the claim as stated): the resumable uploader never sends a chunk
\* for a session whose identifier is empty and never returns success with
\* an empty identifier, so after a resumable upload GetVideo is never called
\* with an empty identifier.
C28_IdentifierNonEmpty ==
  strategy = "tus" =>
    /\ Len(Patches) > 0 => videoID # <<>>
    /\ uploaderRet = "ok" => videoID # <<>>
    /\ getCalls > 0 => getArg # <<>>

\* the session-open requests sent so far
TusOpens == SelectSeq(reqs, LAMBDA r : r.kind = "TusOpen")

\* C29: the resumable path opens its session with a single POST, its first
\* request, that declares an Upload-Length equal to the file size, carries
\* the name metadata exactly when the options have a non-empty name (and
\* then that name), and carries no file bytes; the single-shot path sends
\* no session-open request.
C29_SessionOpenRequest ==
  IF strategy = "tus"
    THEN /\ Len(TusOpens) = 1
         /\ reqs[1].kind = "TusOpen"
         /\ reqs[1].uploadLength = fileSize
         /\ reqs[1].name # "" <=> optsName # ""
         /\ reqs[1].name = optsName
         /\ reqs[1].bodyLen = 0
         /\ reqs[1].offset = -1
    ELSE Len(TusOpens) = 0

\* a named upload of 220 MiB whose session was opened and whose chunks are
\* being sent
C29_Witness ==
  /\ strategy = "tus"
  /\ fileSize = 220 * MiB
  /\ optsName = "clip"
  /\ reqs[1].name = "clip"
  /\ reqs[1].uploadLength = 220 * MiB
  /\ Len(Patches) = 3

\* the answer of a poll: ready to stream, failed (GetVideo failed, or the
\* status is "error" and the video is not ready), or neither
PollReady(a) == ~a.err /\ a.ready
PollFailed(a) == a.err \/ (~a.ready /\ a.status = "error")

\* every poll is the first of its kind: while the wait runs, all polls so
\* far were neither ready nor failed, and there was one per round
PollsSoFarPending ==
  pollRet = "running" =>
    /\ pollCalls = pollI
    /\ pollCalls > 0 => ~PollReady(pollLast) /\ ~PollFailed(pollLast)

\* how the wait has ended
PollOutcome ==
  /\ pollCalls <= maxAttempts
  /\ pollRet = "err" => pollErr # NoError /\ PollFailed(pollLast)
  /\ pollRet = "nil" =>
       /\ pollErr = NoError
       /\ PollReady(pollLast) \/ (pollCalls = maxAttempts /\ ~PollFailed(pollLast))

\* a poll decides at once
PollDecides ==
  pollCalls' = pollCalls + 1 =>
    /\ PollReady(pollLast') => pollRet' = "nil"
    /\ PollFailed(pollLast') => pollRet' = "err"
    /\ (~PollReady(pollLast') /\ ~PollFailed(pollLast')) => pollRet' = "running"

\* C30: waiting for processing always terminates: pollVideoStatus makes at
\* most 60 calls of GetVideo; it returns nil at the first poll that reports
\* the video ready to stream, an error at the first poll whose GetVideo
\* fails or whose status is "error" without being ready, and nil after 60
\* polls that were neither.
C30_PollTerminates ==
  /\ [](PollsSoFarPending /\ PollOutcome)
  /\ [][PollDecides]_vars
  /\ <>(pollRet \in {"nil", "err"})

\* the wait has given up after 60 polls of a video still in progress
C30_Witness ==
  /\ pollRet = "nil"
  /\ pollCalls = 60
  /\ ~pollLast.ready
  /\ pollLast.status = "inprogress"

====
